---- MODULE Spec2Model ----
(***************************************************************************)
(* A model of src/fcopy.py: class Task, the plan / validate / execute      *)
(* pipeline that copies file trees.                                        *)
(*                                                                         *)
(* A file name is a sequence of one-character strings, so that fnmatch and *)
(* Path.suffix are computed on the characters.  A pathlib.Path is a record *)
(* [abs, parts]: whether it is anchored at "/" and its components.  The    *)
(* filesystem is a function from the component sequence of an absolute     *)
(* path to the entry found there; a path outside its domain does not       *)
(* exist.                                                                  *)
(***************************************************************************)
EXTENDS Integers, Sequences, FiniteSets, TLC

\* ------------------------------------------------------------------ bounds

\* a run makes at most this many add and prepare calls, in any order
MaxCalls == 4
\* the external writer acts at most this many times (SpecExt only)
MaxExt == 1

\* ------------------------------------------------------------------- names

N_a == <<"a">>
N_b == <<"b">>
N_c == <<"c">>
N_zz == <<"z", "z">>
N_sub == <<"s", "u", "b">>
N_xtxt == <<"x", ".", "t", "x", "t">>
N_ytmp == <<"y", ".", "t", "m", "p">>
N_git == <<".", "g", "i", "t">>
N_config == <<"c", "o", "n", "f", "i", "g">>

\* --------------------------------------------------------- sequence helpers

Last(s) == s[Len(s)]

Front(s) == SubSeq(s, 1, Len(s) - 1)

IsPrefix(s, t) == Len(s) <= Len(t) /\ SubSeq(t, 1, Len(s)) = s

Range(s) == {s[k] : k \in 1..Len(s)}

NoDup(s) == \A k, l \in 1..Len(s) : s[k] = s[l] => k = l

\* every ordering of the finite set S, as a sequence
Perms(S) == {p \in [1..Cardinality(S) -> S] : \A x \in S : \E k \in 1..Cardinality(S) : p[k] = x}

\* ----------------------------------------------------------- pathlib.Path

\* the process's working directory (os.getcwd()), as components
Cwd == <<>>

AbsPath(parts) == [abs |-> TRUE, parts |-> parts]

RelPath(parts) == [abs |-> FALSE, parts |-> parts]

\* Path.is_absolute()
IsAbsolute(p) == p.abs

\* Path.absolute(): the working directory is put in front of a relative path
Absolute(p) == IF p.abs THEN p ELSE AbsPath(Cwd \o p.parts)

\* Path.name: the last component, the empty string when there is none
Name(p) == IF p.parts = <<>> THEN <<>> ELSE Last(p.parts)

\* Path.parent: the parent of an anchor or of "." is itself
Parent(p) == IF p.parts = <<>> THEN p ELSE [abs |-> p.abs, parts |-> Front(p.parts)]

\* p / q: an absolute right operand replaces the left one
Join(p, q) == IF q.abs THEN q ELSE [abs |-> p.abs, parts |-> p.parts \o q.parts]

\* Path.is_relative_to(q): purely lexical, the anchors must agree
IsRelativeTo(p, q) == p.abs = q.abs /\ IsPrefix(q.parts, p.parts)

\* Path.relative_to(q), defined where is_relative_to holds (ValueError otherwise)
RelativeTo(p, q) == RelPath(SubSeq(p.parts, Len(q.parts) + 1, Len(p.parts)))

\* Path.suffix: from the last dot of the name, unless the dot is first or last
RECURSIVE RFindDot(_, _)
RFindDot(name, k) == IF k = 0 THEN 0 ELSE IF name[k] = "." THEN k ELSE RFindDot(name, k - 1)

Suffix(p) ==
    LET name == Name(p)
        d == RFindDot(name, Len(name))
    IN IF 1 < d /\ d < Len(name) THEN SubSeq(name, d, Len(name)) ELSE <<>>

\* -------------------------------------------------------------- filesystem

DirEntry == [kind |-> "dir", data |-> 0, meta |-> 0]

FileEntry(data, meta) == [kind |-> "file", data |-> data, meta |-> meta]

\* Path.exists()
Exists(f, p) == Absolute(p).parts \in DOMAIN f

\* Path.is_dir()
IsDir(f, p) == Exists(f, p) /\ f[Absolute(p).parts].kind = "dir"

\* Path.is_file()
IsFile(f, p) == Exists(f, p) /\ f[Absolute(p).parts].kind = "file"

\* the names found in directory p
ChildNames(f, p) == {Last(q) : q \in {r \in DOMAIN f : r # <<>> /\ Front(r) = Absolute(p).parts}}

\* the set of results list(p.iterdir()) can give: the children in any order
Iterdir(f, p) == {[k \in 1..Len(o) |-> Join(p, RelPath(<<o[k]>>))] : o \in Perms(ChildNames(f, p))}

\* the prefixes of the component sequence s, itself included, the root excluded
Prefixes(s) == {SubSeq(s, 1, k) : k \in 1..Len(s)}

\* mkdir without exist_ok: an existing path fails too
MkdirFails_exist_not_ok(f, p) ==
    \/ Exists(f, p)
    \/ \E q \in Prefixes(Absolute(p).parts) : q \in DOMAIN f /\ f[q].kind = "file"

\* Path.mkdir(parents=True, exist_ok=True) fails when the path or one of its
\* ancestors is a regular file
MkdirFails(f, p) == \E q \in Prefixes(Absolute(p).parts) : q \in DOMAIN f /\ f[q].kind = "file"

\* Path.mkdir(parents=True, exist_ok=True): the path and its missing ancestors
\* become directories, what exists is left as it is
Mkdir(f, p) ==
    LET new == Prefixes(Absolute(p).parts) \ DOMAIN f
    IN [q \in DOMAIN f \cup new |-> IF q \in DOMAIN f THEN f[q] ELSE DirEntry]

\* ------------------------------------------------------------------ fnmatch

\* fnmatch.fnmatch(name, pat) on POSIX, for patterns made of literal
\* characters, "*" and "?" (the patterns of this model hold no "[")
RECURSIVE Fnmatch(_, _)
Fnmatch(name, pat) ==
    IF pat = <<>> THEN name = <<>>
    ELSE IF Head(pat) = "*"
         THEN Fnmatch(name, Tail(pat)) \/ (name # <<>> /\ Fnmatch(Tail(name), pat))
    ELSE IF Head(pat) = "?"
         THEN name # <<>> /\ Fnmatch(Tail(name), Tail(pat))
    ELSE name # <<>> /\ Head(name) = Head(pat) /\ Fnmatch(Tail(name), Tail(pat))

DEFAULT_EXCLUDE_FILE_PATTERNS ==
    << <<"~", "*">>,
       <<"*", ".", "t", "m", "p">>,
       <<"T", "h", "u", "m", "b", "s", ".", "d", "b">>,
       <<".", "D", "S", "_", "S", "t", "o", "r", "e">>,
       <<".", "g", "i", "t">>,
       <<"_", "_", "p", "y", "c", "a", "c", "h", "e", "_", "_">> >>

\* Task._should_exclude
_should_exclude(path, pat_exc) ==
    \/ \E k \in 1..Len(DEFAULT_EXCLUDE_FILE_PATTERNS) : Fnmatch(Name(path), DEFAULT_EXCLUDE_FILE_PATTERNS[k])
    \/ \E k \in 1..Len(pat_exc) : Fnmatch(Name(path), pat_exc[k])

\* ------------------------------------------------------------ shutil.copy2

\* shutil.copy2(src, dst): a destination that is a directory stands for the
\* file of the source's basename inside it
CopyTarget(f, src, dst) == IF IsDir(f, dst) THEN Join(dst, RelPath(<<Name(src)>>)) ELSE dst

\* the error shutil.copy2(src, dst) raises, "none" when it succeeds
CopyError(f, src, dst) ==
    LET target == CopyTarget(f, src, dst)
    IN IF Exists(f, src) /\ Exists(f, target) /\ Absolute(src) = Absolute(target) THEN "SameFileError"
       ELSE IF ~Exists(f, src) THEN "FileNotFoundError"
       ELSE IF IsDir(f, src) THEN "IsADirectoryError"
       ELSE IF IsDir(f, target) THEN "IsADirectoryError"
       ELSE IF ~Exists(f, Parent(target)) THEN "FileNotFoundError"
       ELSE IF ~IsDir(f, Parent(target)) THEN "NotADirectoryError"
       ELSE "none"

\* the filesystem after a successful shutil.copy2(src, dst): the target holds
\* the source's bytes and its metadata
Copy2(f, src, dst) ==
    LET target == Absolute(CopyTarget(f, src, dst)).parts
        e == f[Absolute(src).parts]
    IN [q \in DOMAIN f \cup {target} |-> IF q = target THEN FileEntry(e.data, e.meta) ELSE f[q]]

\* the copy done as a move: the source is gone afterwards
_copy_file_by_moving(f, src, dst) ==
    LET g == Copy2(f, src, dst)
    IN [q \in DOMAIN g \ {Absolute(src).parts} |-> g[q]]

\* Task._copy_file_with_metadata
_copy_file_with_metadata(f, src, dst) == Copy2(f, src, dst)

\* ------------------------------------------------------------------- inputs

P_a == AbsPath(<<N_a>>)
P_a_sub == AbsPath(<<N_a, N_sub>>)
P_a_xtxt == AbsPath(<<N_a, N_xtxt>>)
P_b == AbsPath(<<N_b>>)
P_b_sub == AbsPath(<<N_b, N_sub>>)
P_b_xtxt == AbsPath(<<N_b, N_xtxt>>)
P_c == AbsPath(<<N_c>>)
P_a_b == AbsPath(<<N_a, N_b>>)
P_zz == AbsPath(<<N_zz>>)
R_a == RelPath(<<N_a>>)
R_b == RelPath(<<N_b>>)

\* the filesystem the run starts on: the tree /a/{x.txt, sub/y.tmp, .git/config}
\* and the tree /c/sub/{x.txt, sub}
Tree0 ==
    ( <<>> :> DirEntry
      @@ <<N_a>> :> DirEntry
      @@ <<N_a, N_xtxt>> :> FileEntry(1, 1)
      @@ <<N_a, N_sub>> :> DirEntry
      @@ <<N_a, N_sub, N_ytmp>> :> FileEntry(2, 2)
      @@ <<N_a, N_git>> :> DirEntry
      @@ <<N_a, N_git, N_config>> :> FileEntry(3, 3)
      @@ <<N_c>> :> DirEntry
      @@ <<N_c, N_sub>> :> DirEntry
      @@ <<N_c, N_sub, N_xtxt>> :> FileEntry(4, 4)
      @@ <<N_c, N_sub, N_sub>> :> FileEntry(5, 5) )

\* the arguments of one add call
Job(s, d, e) == [src |-> s, dst |-> d, inc |-> <<>>, exc |-> e]

NoJob == Job(AbsPath(<<>>), AbsPath(<<>>), <<>>)

PatS == << <<"s", "*">> >>

\* the add calls a run draws from: the example of the documentation, with and
\* without an exclude pattern of its own, a destination inside the source
\* tree, a missing source and an existing destination
FamExample ==
    {Job(P_a, P_b, <<>>), Job(P_a, P_b, PatS), Job(P_a, P_a_b, <<>>),
     Job(P_zz, P_b, <<>>), Job(P_c, P_a, <<>>)}

\* the same source twice, and an unrelated job
FamConflict == {Job(P_a, P_b, <<>>), Job(P_a, P_b_sub, <<>>), Job(P_c, P_zz, <<>>)}

\* destination trees that overlap, equal destinations, a source that is a
\* single file and lies in another job's source tree
FamOverlap == {Job(P_c, P_b, <<>>), Job(P_a, P_b_sub, <<>>), Job(P_a_xtxt, P_b, <<>>)}

\* paths that are not absolute, and a source root that its job excludes
FamRelative == {Job(R_a, P_b, <<>>), Job(P_a_sub, P_b_sub, PatS), Job(P_c, R_b, <<>>)}

\* a destination inside the source tree of another job
FamInside == {Job(P_a, P_b, <<>>), Job(P_c, P_a_b, <<>>)}

Families == {FamExample, FamConflict, FamOverlap, FamRelative, FamInside}

\* -------------------------------------------------------------------- state

VARIABLES
    fs,               \* the filesystem
    inputs,           \* the add calls this run may make
    task_count, src_list, dst_list, pat_include, pat_exclude,
    pre_directories, pre_file_src, pre_file_dst,
    dir_by,           \* history: the pairs <<job index, directory>> handed to _add_pre_dir
    file_by,          \* history: for each Planned File, the index of the job that planned it
    pc,               \* "idle", "prepare" in a prepare call run turn by turn, or the pass
                      \* execute is in: "dirs", "files", and then "done"
    idx,              \* execute's loop index, from 1
    calls,            \* the number of add and prepare calls so far
    exts,             \* the number of external writes so far
    last,             \* the operation of the last step
    arg,              \* the arguments of the last add call
    result,           \* how the last operation ended: "ok", or the error it raised
    loop_i,           \* prepare run turn by turn: the job its for loop is at, from 1
    loop_queue,       \* prepare run turn by turn: the worklist of its while loop
    taken,            \* history: the pairs <<job, entry>> taken from the worklist in this call
    twice             \* history: some pair was taken from the worklist a second time

jobvars == <<task_count, src_list, dst_list, pat_include, pat_exclude>>

planvars == <<pre_directories, pre_file_src, pre_file_dst, dir_by, file_by>>

loopvars == <<loop_i, loop_queue, taken, twice>>

vars == <<fs, inputs, jobvars, planvars, pc, idx, calls, exts, last, arg, result, loopvars>>

\* Task.__init__, for a run that draws its add calls from one of fams
InitWith(fams) ==
    /\ fs = Tree0
    /\ inputs \in fams
    /\ task_count = 0
    /\ src_list = <<>>
    /\ dst_list = <<>>
    /\ pat_include = <<>>
    /\ pat_exclude = <<>>
    /\ pre_directories = <<>>
    /\ pre_file_src = <<>>
    /\ pre_file_dst = <<>>
    /\ dir_by = {}
    /\ file_by = <<>>
    /\ pc = "idle"
    /\ idx = 0
    /\ calls = 0
    /\ exts = 0
    /\ last = "init"
    /\ arg = NoJob
    /\ result = "ok"
    /\ loop_i = 0
    /\ loop_queue = <<>>
    /\ taken = {}
    /\ twice = FALSE

Init == InitWith(Families)

\* ---------------------------------------------------------------------- add

\* add without the test of the destination
AddOutcome_any_destination(f, j) == IF ~Exists(f, j.src) THEN "skipped: no source" ELSE "added"

\* how add(src, dst, inc, exc) ends: the job is appended, or skipped with a warning
AddOutcome(f, j) ==
    IF ~Exists(f, j.src) THEN "skipped: no source"
    ELSE IF Exists(f, j.dst) THEN "skipped: destination exists"
    ELSE "added"

\* add creating the destination root as soon as the job is registered
Add_creates_destination(j) ==
    /\ pc = "idle"
    /\ calls < MaxCalls
    /\ calls' = calls + 1
    /\ last' = "add"
    /\ arg' = j
    /\ result' = IF ~Exists(fs, j.src) THEN "skipped: no source"
                 ELSE IF Exists(fs, j.dst) THEN "skipped: destination exists" ELSE "added"
    /\ IF ~Exists(fs, j.src) \/ Exists(fs, j.dst)
       THEN UNCHANGED <<fs, jobvars>>
       ELSE /\ src_list' = Append(src_list, j.src)
            /\ dst_list' = Append(dst_list, j.dst)
            /\ pat_include' = Append(pat_include, j.inc)
            /\ pat_exclude' = Append(pat_exclude, j.exc)
            /\ task_count' = task_count + 1
            /\ fs' = Mkdir(fs, j.dst)
    /\ UNCHANGED <<inputs, loopvars, planvars, pc, idx, exts>>

\* Task.add
Add(j) ==
    /\ pc = "idle"
    /\ calls < MaxCalls
    /\ calls' = calls + 1
    /\ last' = "add"
    /\ arg' = j
    /\ result' = AddOutcome(fs, j)
    /\ IF AddOutcome(fs, j) = "added"
       THEN /\ src_list' = Append(src_list, j.src)
            /\ dst_list' = Append(dst_list, j.dst)
            /\ pat_include' = Append(pat_include, j.inc)
            /\ pat_exclude' = Append(pat_exclude, j.exc)
            /\ task_count' = task_count + 1
       ELSE UNCHANGED jobvars
    /\ UNCHANGED <<fs, inputs, loopvars, planvars, pc, idx, exts>>

\* ------------------------------------------------------------------ prepare

\* the plan as prepare's loop carries it
PlanNow == [dirs |-> pre_directories, fsrc |-> pre_file_src, fdst |-> pre_file_dst,
            dirby |-> dir_by, fileby |-> file_by]

\* _add_pre_dir without the membership test
_add_pre_dir_always(dirs, pre_dir) == Append(dirs, pre_dir)

\* Task._add_pre_dir
_add_pre_dir(dirs, pre_dir) == IF pre_dir \in Range(dirs) THEN dirs ELSE Append(dirs, pre_dir)

\* Task._add_pre_file, on the two lists
_add_pre_file(pl, pre_src, pre_dst) ==
    [pl EXCEPT !.fsrc = Append(@, pre_src), !.fdst = Append(@, pre_dst)]

\* the plan after job i has handed pre_dir to _add_pre_dir
PlanDir(pl, i, pre_dir) ==
    [pl EXCEPT !.dirs = _add_pre_dir(@, pre_dir), !.dirby = @ \cup {<<i, pre_dir>>}]

\* the plan after job i has handed the pair to _add_pre_file
PlanFile(pl, i, pre_src, pre_dst) ==
    [_add_pre_file(pl, pre_src, pre_dst) EXCEPT !.fileby = Append(@, i)]

\* the loop's turn with an excluded directory left out of the plan, its
\* children still put on the worklist
Visit_expands_excluded(f, queue, pl, i, src_root, dst, exc) ==
    LET src == Absolute(Last(queue))
        rest == Front(queue)
    IN IF _should_exclude(src, exc)
       THEN IF IsDir(f, src)
            THEN {[queue |-> rest \o kids, plan |-> pl, err |-> "none"] : kids \in Iterdir(f, src)}
            ELSE {[queue |-> rest, plan |-> pl, err |-> "none"]}
       ELSE IF ~IsRelativeTo(src, src_root)
       THEN {[queue |-> <<>>, plan |-> pl, err |-> "ValueError"]}
       ELSE IF IsDir(f, src)
       THEN {[queue |-> rest \o kids,
              plan |-> PlanDir(pl, i, Join(dst, RelativeTo(src, src_root))),
              err |-> "none"] : kids \in Iterdir(f, src)}
       ELSE LET pre_dir == Join(dst, Parent(RelativeTo(src, src_root)))
                pre_dst == Join(pre_dir, RelPath(<<Name(src)>>))
            IN {[queue |-> rest,
                 plan |-> PlanFile(PlanDir(pl, i, pre_dir), i, src, pre_dst),
                 err |-> "none"]}

\* the loop's turn with only the first listed child of a directory put on the
\* worklist
Visit_first_child_only(f, queue, pl, i, src_root, dst, exc) ==
    LET src == Absolute(Last(queue))
        rest == Front(queue)
    IN IF _should_exclude(src, exc)
       THEN {[queue |-> rest, plan |-> pl, err |-> "none"]}
       ELSE IF ~IsRelativeTo(src, src_root)
       THEN {[queue |-> <<>>, plan |-> pl, err |-> "ValueError"]}
       ELSE IF IsDir(f, src)
       THEN {[queue |-> rest \o SubSeq(kids, 1, 1),
              plan |-> PlanDir(pl, i, Join(dst, RelativeTo(src, src_root))),
              err |-> "none"] : kids \in Iterdir(f, src)}
       ELSE LET pre_dir == Join(dst, Parent(RelativeTo(src, src_root)))
                pre_dst == Join(pre_dir, RelPath(<<Name(src)>>))
            IN {[queue |-> rest,
                 plan |-> PlanFile(PlanDir(pl, i, pre_dir), i, src, pre_dst),
                 err |-> "none"]}

\* the loop's turn with a file planned without its directory
Visit_file_without_directory(f, queue, pl, i, src_root, dst, exc) ==
    LET src == Absolute(Last(queue))
        rest == Front(queue)
    IN IF _should_exclude(src, exc)
       THEN {[queue |-> rest, plan |-> pl, err |-> "none"]}
       ELSE IF ~IsRelativeTo(src, src_root)
       THEN {[queue |-> <<>>, plan |-> pl, err |-> "ValueError"]}
       ELSE IF IsDir(f, src)
       THEN {[queue |-> rest \o kids,
              plan |-> PlanDir(pl, i, Join(dst, RelativeTo(src, src_root))),
              err |-> "none"] : kids \in Iterdir(f, src)}
       ELSE LET pre_dir == Join(dst, Parent(RelativeTo(src, src_root)))
                pre_dst == Join(pre_dir, RelPath(<<Name(src)>>))
            IN {[queue |-> rest,
                 plan |-> PlanFile(pl, i, src, pre_dst),
                 err |-> "none"]}

\* the loop's turn with an excluded entry left on the worklist
Visit_keeps_excluded(f, queue, pl, i, src_root, dst, exc) ==
    LET src == Absolute(Last(queue))
        rest == Front(queue)
    IN IF _should_exclude(src, exc)
       THEN {[queue |-> queue, plan |-> pl, err |-> "none"]}
       ELSE IF ~IsRelativeTo(src, src_root)
       THEN {[queue |-> <<>>, plan |-> pl, err |-> "ValueError"]}
       ELSE IF IsDir(f, src)
       THEN {[queue |-> rest \o kids,
              plan |-> PlanDir(pl, i, Join(dst, RelativeTo(src, src_root))),
              err |-> "none"] : kids \in Iterdir(f, src)}
       ELSE LET pre_dir == Join(dst, Parent(RelativeTo(src, src_root)))
                pre_dst == Join(pre_dir, RelPath(<<Name(src)>>))
            IN {[queue |-> rest,
                 plan |-> PlanFile(PlanDir(pl, i, pre_dir), i, src, pre_dst),
                 err |-> "none"]}

\* One turn of prepare's while loop for job i: the last entry of the worklist
\* is taken, made absolute and excluded, expanded or planned.  The set holds
\* one outcome per order in which iterdir may list a directory; err is the
\* ValueError of relative_to when the entry does not lie under src_root.
Visit(f, queue, pl, i, src_root, dst, exc) ==
    LET src == Absolute(Last(queue))
        rest == Front(queue)
    IN IF _should_exclude(src, exc)
       THEN {[queue |-> rest, plan |-> pl, err |-> "none"]}
       ELSE IF ~IsRelativeTo(src, src_root)
       THEN {[queue |-> <<>>, plan |-> pl, err |-> "ValueError"]}
       ELSE IF IsDir(f, src)
       THEN {[queue |-> rest \o kids,
              plan |-> PlanDir(pl, i, Join(dst, RelativeTo(src, src_root))),
              err |-> "none"] : kids \in Iterdir(f, src)}
       ELSE LET pre_dir == Join(dst, Parent(RelativeTo(src, src_root)))
                pre_dst == Join(pre_dir, RelPath(<<Name(src)>>))
            IN {[queue |-> rest,
                 plan |-> PlanFile(PlanDir(pl, i, pre_dir), i, src, pre_dst),
                 err |-> "none"]}

\* prepare's while loop for job i, run until the worklist is empty or an
\* error is raised: every plan it can end with
RECURSIVE Traverse(_, _, _, _, _, _, _)
Traverse(f, queue, pl, i, src_root, dst, exc) ==
    IF queue = <<>>
    THEN {[plan |-> pl, err |-> "none"]}
    ELSE UNION {IF o.err # "none"
                THEN {[plan |-> o.plan, err |-> o.err]}
                ELSE Traverse(f, o.queue, o.plan, i, src_root, dst, exc)
                : o \in Visit(f, queue, pl, i, src_root, dst, exc)}

\* prepare's for loop from job i on
RECURSIVE PrepareFrom(_, _, _)
PrepareFrom(f, i, pl) ==
    IF i > task_count
    THEN {[plan |-> pl, err |-> "none"]}
    ELSE UNION {IF o.err # "none" THEN {o} ELSE PrepareFrom(f, i + 1, o.plan)
                : o \in Traverse(f, <<src_list[i]>>, pl, i, src_list[i], dst_list[i], pat_exclude[i])}

\* Task.prepare
Prepare ==
    /\ pc = "idle"
    /\ calls < MaxCalls
    /\ \E o \in PrepareFrom(fs, 1, PlanNow) :
          /\ pre_directories' = o.plan.dirs
          /\ pre_file_src' = o.plan.fsrc
          /\ pre_file_dst' = o.plan.fdst
          /\ dir_by' = o.plan.dirby
          /\ file_by' = o.plan.fileby
          /\ result' = IF o.err = "none" THEN "ok" ELSE o.err
    /\ calls' = calls + 1
    /\ last' = "prepare"
    /\ arg' = NoJob
    /\ UNCHANGED <<fs, inputs, loopvars, jobvars, pc, idx, exts>>

\* ----------------------------------------------------- prepare, turn by turn

\* Task.prepare is called: its for loop starts
PrepareCall ==
    /\ pc = "idle"
    /\ calls < MaxCalls
    /\ pc' = "prepare"
    /\ loop_i' = 0
    /\ loop_queue' = <<>>
    /\ taken' = {}
    /\ twice' = FALSE
    /\ calls' = calls + 1
    /\ last' = "prepare"
    /\ arg' = NoJob
    /\ result' = "running"
    /\ UNCHANGED <<fs, inputs, jobvars, planvars, idx, exts>>

\* the for loop goes to its next job: the worklist holds the job's source root
NextJob ==
    /\ pc = "prepare"
    /\ loop_queue = <<>>
    /\ loop_i < task_count
    /\ loop_i' = loop_i + 1
    /\ loop_queue' = <<src_list[loop_i + 1]>>
    /\ UNCHANGED <<fs, inputs, jobvars, planvars, pc, idx, calls, exts, last, arg, result, taken, twice>>

\* one turn of the while loop; the ValueError of relative_to ends prepare
VisitStep ==
    /\ pc = "prepare"
    /\ loop_queue # <<>>
    /\ \E o \in Visit(fs, loop_queue, PlanNow, loop_i, src_list[loop_i], dst_list[loop_i],
                      pat_exclude[loop_i]) :
          /\ pre_directories' = o.plan.dirs
          /\ pre_file_src' = o.plan.fsrc
          /\ pre_file_dst' = o.plan.fdst
          /\ dir_by' = o.plan.dirby
          /\ file_by' = o.plan.fileby
          /\ loop_queue' = o.queue
          /\ pc' = IF o.err = "none" THEN "prepare" ELSE "idle"
          /\ result' = IF o.err = "none" THEN result ELSE o.err
    /\ taken' = taken \cup {<<loop_i, Absolute(Last(loop_queue))>>}
    /\ twice' = (twice \/ <<loop_i, Absolute(Last(loop_queue))>> \in taken)
    /\ UNCHANGED <<fs, inputs, jobvars, idx, calls, exts, last, arg, loop_i>>

\* the for loop is over: prepare returns
PrepareReturn ==
    /\ pc = "prepare"
    /\ loop_queue = <<>>
    /\ loop_i >= task_count
    /\ pc' = "idle"
    /\ result' = "ok"
    /\ UNCHANGED <<fs, inputs, jobvars, planvars, idx, calls, exts, last, arg, loopvars>>

\* ----------------------------------------------------------------- validate

\* the first outcome of a sequence of checks that is not "ok"
FirstError(checks) ==
    IF \E k \in 1..Len(checks) : checks[k] # "ok"
    THEN checks[CHOOSE k \in 1..Len(checks) : checks[k] # "ok" /\ \A l \in 1..(k - 1) : checks[l] = "ok"]
    ELSE "ok"

\* the four assertions validate makes on the jobs i < j
PairChecks(i, j) ==
    << IF src_list[i] = src_list[j] THEN "Duplicate source" ELSE "ok",
       IF dst_list[i] = dst_list[j] THEN "Duplicate destination" ELSE "ok",
       IF IsRelativeTo(src_list[i], src_list[j]) THEN "Source is the parent" ELSE "ok",
       IF IsRelativeTo(src_list[j], src_list[i]) THEN "Source is the parent" ELSE "ok" >>

\* the assertions on neighbouring jobs only
RECURSIVE JobChecks_adjacent(_, _)
JobChecks_adjacent(i, j) ==
    IF j > task_count THEN <<>> ELSE PairChecks(i, j) \o JobChecks_adjacent(i + 1, j + 1)

\* the assertions on the pairs of jobs, in the order of the two nested loops
RECURSIVE JobChecks(_, _)
JobChecks(i, j) ==
    IF i > task_count THEN <<>>
    ELSE IF j > task_count THEN JobChecks(i + 1, i + 2)
    ELSE PairChecks(i, j) \o JobChecks(i, j + 1)

\* the two assertions on each Planned Directory
RECURSIVE DirChecks(_, _)
DirChecks(f, k) ==
    IF k > Len(pre_directories) THEN <<>>
    ELSE << IF ~IsAbsolute(pre_directories[k]) THEN "Directory is not absolute" ELSE "ok",
            IF Exists(f, pre_directories[k]) THEN "Directory already exists" ELSE "ok" >>
         \o DirChecks(f, k + 1)

\* the first assertion only on each Planned File's source
RECURSIVE SrcChecks_absolute_only(_, _)
SrcChecks_absolute_only(f, k) ==
    IF k > Len(pre_file_src) THEN <<>>
    ELSE << IF ~IsAbsolute(pre_file_src[k]) THEN "Source file is not absolute" ELSE "ok" >>
         \o SrcChecks_absolute_only(f, k + 1)

\* the two assertions on each Planned File's source
RECURSIVE SrcChecks(_, _)
SrcChecks(f, k) ==
    IF k > Len(pre_file_src) THEN <<>>
    ELSE << IF ~IsAbsolute(pre_file_src[k]) THEN "Source file is not absolute" ELSE "ok",
            IF ~Exists(f, pre_file_src[k]) THEN "Source file does not exist" ELSE "ok" >>
         \o SrcChecks(f, k + 1)

\* the two assertions on each Planned File's destination
RECURSIVE DstChecks(_, _)
DstChecks(f, k) ==
    IF k > Len(pre_file_dst) THEN <<>>
    ELSE << IF ~IsAbsolute(pre_file_dst[k]) THEN "Destination file is not absolute" ELSE "ok",
            IF Exists(f, pre_file_dst[k]) THEN "Destination file already exists" ELSE "ok" >>
         \o DstChecks(f, k + 1)

\* the message of the assertion validate fails on, "ok" when it returns
ValidateOutcome(f) ==
    FirstError(<< IF task_count > 0 THEN "ok" ELSE "No tasks to execute" >>
               \o JobChecks(1, 2) \o DirChecks(f, 1) \o SrcChecks(f, 1) \o DstChecks(f, 1))

\* Task.validate
Validate ==
    /\ pc = "idle"
    /\ last' = "validate"
    /\ arg' = NoJob
    /\ result' = ValidateOutcome(fs)
    /\ UNCHANGED <<fs, inputs, loopvars, jobvars, planvars, pc, idx, calls, exts>>

\* ------------------------------------------------------------------ summary

\* the suffixes summary counts: those of the Planned File sources that have one
Suffixes == {Suffix(pre_file_src[k]) : k \in 1..Len(pre_file_src)} \ {<<>>}

\* how summary ends: stat fails on a source that is gone, and max fails on
\* an empty list of suffixes
SummaryOutcome(f) ==
    IF \E k \in 1..Len(pre_file_src) : ~Exists(f, pre_file_src[k]) THEN "FileNotFoundError"
    ELSE IF Suffixes = {} THEN "ValueError"
    ELSE "ok"

\* Task.summary
Summary ==
    /\ pc = "idle"
    /\ last' = "summary"
    /\ arg' = NoJob
    /\ result' = SummaryOutcome(fs)
    /\ UNCHANGED <<fs, inputs, loopvars, jobvars, planvars, pc, idx, calls, exts>>

\* ------------------------------------------------------------------ execute

\* execute going straight to the file pass
Execute_files_first ==
    /\ pc = "idle"
    /\ pc' = "files"
    /\ idx' = 1
    /\ last' = "execute"
    /\ arg' = NoJob
    /\ result' = "running"
    /\ UNCHANGED <<fs, inputs, loopvars, jobvars, planvars, calls, exts>>

\* Task.execute is called: the directory pass starts
Execute ==
    /\ pc = "idle"
    /\ pc' = "dirs"
    /\ idx' = 1
    /\ last' = "execute"
    /\ arg' = NoJob
    /\ result' = "running"
    /\ UNCHANGED <<fs, inputs, loopvars, jobvars, planvars, calls, exts>>

\* the first loop going on to the next directory when mkdir fails
MkdirStep_skips_failure ==
    /\ pc = "dirs"
    /\ idx <= Len(pre_directories)
    /\ fs' = IF MkdirFails(fs, pre_directories[idx]) THEN fs ELSE Mkdir(fs, pre_directories[idx])
    /\ idx' = idx + 1
    /\ UNCHANGED <<pc, result>>
    /\ UNCHANGED <<inputs, loopvars, jobvars, planvars, calls, exts, last, arg>>

\* one turn of the first loop: pre_directories[idx] is created, or the error
\* of mkdir ends execute
MkdirStep ==
    /\ pc = "dirs"
    /\ idx <= Len(pre_directories)
    /\ IF MkdirFails(fs, pre_directories[idx])
       THEN /\ pc' = "done"
            /\ result' = "FileExistsError"
            /\ UNCHANGED <<fs, idx>>
       ELSE /\ fs' = Mkdir(fs, pre_directories[idx])
            /\ idx' = idx + 1
            /\ UNCHANGED <<pc, result>>
    /\ UNCHANGED <<inputs, loopvars, jobvars, planvars, calls, exts, last, arg>>

\* the first loop is over: the file pass starts
DirsDone ==
    /\ pc = "dirs"
    /\ idx > Len(pre_directories)
    /\ pc' = "files"
    /\ idx' = 1
    /\ UNCHANGED <<fs, inputs, loopvars, jobvars, planvars, calls, exts, last, arg, result>>

\* one turn of the second loop: pre_file_src[idx] is copied to
\* pre_file_dst[idx], or the error of copy2 ends execute
CopyStep ==
    /\ pc = "files"
    /\ idx <= Len(pre_file_src)
    /\ IF CopyError(fs, pre_file_src[idx], pre_file_dst[idx]) # "none"
       THEN /\ pc' = "done"
            /\ result' = CopyError(fs, pre_file_src[idx], pre_file_dst[idx])
            /\ UNCHANGED <<fs, idx>>
       ELSE /\ fs' = _copy_file_with_metadata(fs, pre_file_src[idx], pre_file_dst[idx])
            /\ idx' = idx + 1
            /\ UNCHANGED <<pc, result>>
    /\ UNCHANGED <<inputs, loopvars, jobvars, planvars, calls, exts, last, arg>>

\* the second loop is over: execute returns
FilesDone ==
    /\ pc = "files"
    /\ idx > Len(pre_file_src)
    /\ pc' = "done"
    /\ result' = "ok"
    /\ UNCHANGED <<fs, idx, inputs, loopvars, jobvars, planvars, calls, exts, last, arg>>

\* ---------------------------------------------------------- external writer

\* the directories another process may create, the files it may write, the
\* files it may remove
ExtDirs == {P_b, P_b_sub}

ExtFiles == {P_b, P_b_xtxt}

ExtGone == {P_a_xtxt}

\* another process runs mkdir -p p
ExtMkdir(p) ==
    /\ pc # "done"
    /\ exts < MaxExt
    /\ ~MkdirFails(fs, p)
    /\ ~Exists(fs, p)
    /\ fs' = Mkdir(fs, p)
    /\ exts' = exts + 1
    /\ UNCHANGED <<inputs, loopvars, jobvars, planvars, pc, idx, calls, last, arg, result>>

\* another process writes a new file p
ExtWrite(p) ==
    /\ pc # "done"
    /\ exts < MaxExt
    /\ ~Exists(fs, p)
    /\ IsDir(fs, Parent(p))
    /\ fs' = [q \in DOMAIN fs \cup {p.parts} |-> IF q = p.parts THEN FileEntry(9, 9) ELSE fs[q]]
    /\ exts' = exts + 1
    /\ UNCHANGED <<inputs, loopvars, jobvars, planvars, pc, idx, calls, last, arg, result>>

\* another process removes the file p
ExtRemove(p) ==
    /\ pc # "done"
    /\ exts < MaxExt
    /\ IsFile(fs, p)
    /\ fs' = [q \in DOMAIN fs \ {p.parts} |-> fs[q]]
    /\ exts' = exts + 1
    /\ UNCHANGED <<inputs, loopvars, jobvars, planvars, pc, idx, calls, last, arg, result>>

External ==
    \/ \E p \in ExtDirs : ExtMkdir(p)
    \/ \E p \in ExtFiles : ExtWrite(p)
    \/ \E p \in ExtGone : ExtRemove(p)

\* ------------------------------------------------------------ specification

\* the calls on a Task and the steps of execute
Next ==
    \/ \E j \in inputs : Add(j)
    \/ Prepare
    \/ Validate
    \/ Summary
    \/ Execute
    \/ MkdirStep
    \/ DirsDone
    \/ CopyStep
    \/ FilesDone

\* a run with the filesystem to itself
Spec == Init /\ [][Next]_vars

NextExt == Next \/ External

InitExt == InitWith({FamExample, FamRelative})

\* a run beside another process that writes to the same filesystem
SpecExt == InitExt /\ [][NextExt]_vars

\* add calls and prepare calls, each prepare call run one turn of its loops
\* at a time
NextSteps ==
    \/ \E j \in inputs : Add(j)
    \/ PrepareCall
    \/ NextJob
    \/ VisitStep
    \/ PrepareReturn

\* a prepare call that has started goes on: nothing in its loops waits
InitSteps == InitWith({FamExample, FamRelative, FamInside})

SpecSteps == InitSteps /\ [][NextSteps]_vars /\ WF_vars(NextJob \/ VisitStep \/ PrepareReturn)

\* ------------------------------------------------------------------- claims

\* the regular files of a filesystem
Files(f) == {q \in DOMAIN f : f[q].kind = "file"}

\* C1: add, prepare, validate and summary leave the filesystem as it was,
\* only execute writes to it; and when validate has aborted, the filesystem
\* is still the one the run started on: nothing was created, nothing copied.
C1_OnlyExecuteWrites ==
    [][/\ last' # "execute" => fs' = fs
       /\ (last' = "validate" /\ result' # "ok") => fs' = Tree0]_vars

\* C1: validate has aborted on a plan that holds directories and files
C1_Witness ==
    /\ last = "validate"
    /\ result # "ok"
    /\ pre_directories # <<>>
    /\ pre_file_src # <<>>

\* C2: while execute is in its file pass every Planned Directory is a
\* directory, the directory of the destination of the file copied next is a
\* directory, and while it is in its directory pass no file has been copied.
C2_DirectoriesBeforeFiles ==
    /\ pc = "files" => \A k \in 1..Len(pre_directories) : IsDir(fs, pre_directories[k])
    /\ (pc = "files" /\ idx <= Len(pre_file_src)) => IsDir(fs, Parent(pre_file_dst[idx]))
    /\ pc = "dirs" => Files(fs) = Files(Tree0)

\* C2: execute has copied a file and is about to copy another one, into a
\* directory it has created
C2_Witness ==
    /\ pc = "files"
    /\ idx > 1
    /\ idx <= Len(pre_file_src)
    /\ ~Exists(Tree0, Parent(pre_file_dst[idx]))

\* C3: add appends exactly the job it is given when the source exists and
\* the destination does not; otherwise the job count and the four job lists
\* are unchanged, and add returns with a warning, without raising.
C3_AddRegistersOrSkips ==
    [][(last' = "add" /\ calls' = calls + 1) =>
          IF Exists(fs, arg'.src) /\ ~Exists(fs, arg'.dst)
          THEN /\ task_count' = task_count + 1
               /\ src_list' = Append(src_list, arg'.src)
               /\ dst_list' = Append(dst_list, arg'.dst)
               /\ pat_include' = Append(pat_include, arg'.inc)
               /\ pat_exclude' = Append(pat_exclude, arg'.exc)
               /\ result' = "added"
          ELSE /\ UNCHANGED jobvars
               /\ result' \in {"skipped: no source", "skipped: destination exists"}]_vars

\* C3: a job is registered and a later add was skipped for its destination
C3_Witness ==
    /\ last = "add"
    /\ result = "skipped: destination exists"
    /\ task_count = 1

\* some two jobs have the same source / the same destination
SameSource == \E i, j \in 1..task_count : i # j /\ src_list[i] = src_list[j]

SameDestination == \E i, j \in 1..task_count : i # j /\ dst_list[i] = dst_list[j]

\* some job's source path lies strictly under another job's source path
NestedSourcePaths ==
    \E i, j \in 1..task_count :
        src_list[i] # src_list[j] /\ IsRelativeTo(src_list[i], src_list[j])

\* C4: validate aborts when no job is registered and whenever two jobs, at
\* any two positions, have the same source or the same destination; the same
\* source registered twice with different destinations is in the job list
\* and makes validate fail with the duplicate-source error.
C4_DuplicatesRejected ==
    last = "validate" =>
        /\ task_count = 0 => result = "No tasks to execute"
        /\ (SameSource \/ SameDestination) => result # "ok"
        /\ (SameSource /\ ~SameDestination /\ ~NestedSourcePaths) => result = "Duplicate source"

\* C4: three jobs, the first and the third with the same source, the second
\* unrelated to both, and validate has failed on the duplicate source
C4_Witness ==
    /\ last = "validate"
    /\ task_count = 3
    /\ src_list[1] = src_list[3]
    /\ src_list[1] # src_list[2]
    /\ dst_list[1] # dst_list[3]
    /\ result = "Duplicate source"

\* the components of the absolute path of job i's source root
Root(i) == Absolute(src_list[i]).parts

\* the destination path job i gives the entry x of its source tree
Image(i, x) == Join(dst_list[i], RelPath(SubSeq(x, Len(Root(i)) + 1, Len(x))))

\* one path lies strictly above the other in the filesystem
FsAncestor(p, q) ==
    Absolute(p).parts # Absolute(q).parts /\ IsPrefix(Absolute(p).parts, Absolute(q).parts)

NestedSources == \E i, j \in 1..task_count : i # j /\ FsAncestor(src_list[i], src_list[j])

\* C5: when one job's source is a filesystem ancestor of another job's
\* source, validate aborts, and with the ancestor-conflict error when no two
\* jobs have the same source or the same destination.
C5_NestedSourcesRejected ==
    (last = "validate" /\ NestedSources) =>
        /\ result # "ok"
        /\ (~SameSource /\ ~SameDestination) => result = "Source is the parent"

\* some planned entry is stale on filesystem f: a Planned Directory or the
\* destination of a Planned File exists or is not absolute, the source of a
\* Planned File does not exist or is not absolute
PlanStale(f) ==
    \/ \E k \in 1..Len(pre_directories) :
          ~IsAbsolute(pre_directories[k]) \/ Exists(f, pre_directories[k])
    \/ \E k \in 1..Len(pre_file_dst) :
          ~IsAbsolute(pre_file_dst[k]) \/ Exists(f, pre_file_dst[k])
    \/ \E k \in 1..Len(pre_file_src) :
          ~IsAbsolute(pre_file_src[k]) \/ ~Exists(f, pre_file_src[k])

\* C6: a validate call made while some planned entry is stale aborts, so
\* validate returns normally only on a plan with no stale entry.
C6_StalePlanRejected ==
    [][(last' = "validate" /\ exts' = exts /\ PlanStale(fs')) => result' # "ok"]_vars

\* C6: validate has failed on a planned source that was removed after
\* prepare had planned it
C6_Witness ==
    /\ last = "validate"
    /\ result = "Source file does not exist"

\* C7: whenever validate returns normally, no two Planned Files that
\* different jobs have planned have the same destination path (the case of
\* overlapping destination trees; pairwise distinct destinations imply it).
C7_FileDestinationsDistinct ==
    (last = "validate" /\ result = "ok") =>
        \A k, l \in 1..Len(pre_file_dst) :
            file_by[k] # file_by[l] => pre_file_dst[k] # pre_file_dst[l]

\* the entries of job i's source tree, the root included, whose name the
\* built-in patterns or the job's own patterns exclude
ExcludedEntries(i) ==
    {e \in DOMAIN fs : e # <<>> /\ IsPrefix(Root(i), e) /\ _should_exclude(AbsPath(e), pat_exclude[i])}

\* C8: for every job and every excluded entry of its source tree, neither
\* the entry nor anything below it is the source of a Planned File of that
\* job, and the job has recorded the destination image of none of them as a
\* Planned Directory.
C8_ExclusionIsSubtreeWide ==
    \A i \in 1..task_count : \A e \in ExcludedEntries(i) : \A x \in DOMAIN fs :
        IsPrefix(e, x) =>
            /\ ~\E k \in 1..Len(pre_file_src) : file_by[k] = i /\ pre_file_src[k] = AbsPath(x)
            /\ <<i, Image(i, x)>> \notin dir_by

\* C8: a job with a pattern of its own has planned a file, and its source
\* tree holds an excluded directory that is not empty
C8_Witness ==
    \E i \in 1..task_count :
        /\ pat_exclude[i] # <<>>
        /\ \E k \in 1..Len(file_by) : file_by[k] = i
        /\ \E e \in ExcludedEntries(i) : \E x \in DOMAIN fs :
              fs[e].kind = "dir" /\ x # e /\ IsPrefix(e, x) /\ Fnmatch(Last(e), pat_exclude[i][1])

\* C9: the Planned Directory list never holds a path twice, and a step only
\* appends to it: an entry stays at the position of its first occurrence.
C9_DirectoriesDeduplicated ==
    [][NoDup(pre_directories') /\ IsPrefix(pre_directories, pre_directories')]_vars

\* C9: two different jobs have handed the same directory to _add_pre_dir
C9_Witness ==
    \E b1, b2 \in dir_by : b1[1] # b2[1] /\ b1[2] = b2[2]

\* the entries job 1 reaches from its source root through entries that are
\* not excluded, themselves not excluded
Kept1 ==
    {x \in DOMAIN fs :
        /\ IsPrefix(Root(1), x)
        /\ \A k \in Len(Root(1))..Len(x) :
              k >= 1 => ~_should_exclude(AbsPath(SubSeq(x, 1, k)), pat_exclude[1])}

\* C10: for a single job whose source root is a directory, the Planned
\* Directories are the images of the directories reached through entries
\* that are not excluded, and the Planned Files pair each file reached so
\* with its image.
C10_SingleJobPlan ==
    (last = "prepare" /\ task_count = 1 /\ IsDir(fs, src_list[1])) =>
        /\ Range(pre_directories) = {Image(1, x) : x \in {y \in Kept1 : fs[y].kind = "dir"}}
        /\ {<<pre_file_src[k], pre_file_dst[k]>> : k \in 1..Len(pre_file_src)}
              = {<<AbsPath(x), Image(1, x)>> : x \in {y \in Kept1 : fs[y].kind = "file"}}

\* execute has returned normally, on jobs and a plan that validate accepts on
\* the filesystem the run started on (which add, prepare and validate leave
\* as it is)
ValidatedRunDone == pc = "done" /\ result = "ok" /\ ValidateOutcome(Tree0) = "ok"

\* C11: after a run in which validate and execute both returned normally,
\* every Planned Directory is a directory and the destination of every
\* Planned File is a regular file with the content of its source.
C11_PlanCarriedOut ==
    ValidatedRunDone =>
        /\ \A k \in 1..Len(pre_directories) : IsDir(fs, pre_directories[k])
        /\ \A k \in 1..Len(pre_file_src) :
              /\ IsFile(fs, pre_file_dst[k])
              /\ fs[Absolute(pre_file_dst[k]).parts].data = fs[Absolute(pre_file_src[k]).parts].data

\* the set of Planned File pairs of the two lists
PlannedPairs(fsrc, fdst) == {<<fsrc[k], fdst[k]>> : k \in 1..Len(fsrc)}

\* C12: the plan a prepare call leaves has the same set of Planned
\* Directories and the same set of Planned File pairs as the plan of every
\* other order in which the directories could have been listed; and a prepare
\* call that follows a prepare call leaves both sets and the directory list
\* as they were, the file lists only growing at their end.
C12_PlanningIdempotent ==
    [][(last' = "prepare" /\ calls' = calls + 1) =>
          /\ \A o \in PrepareFrom(fs, 1, PlanNow) :
                /\ Range(o.plan.dirs) = Range(pre_directories')
                /\ PlannedPairs(o.plan.fsrc, o.plan.fdst) = PlannedPairs(pre_file_src', pre_file_dst')
          /\ last = "prepare" =>
                /\ pre_directories' = pre_directories
                /\ PlannedPairs(pre_file_src', pre_file_dst') = PlannedPairs(pre_file_src, pre_file_dst)
                /\ IsPrefix(pre_file_src, pre_file_src')
                /\ IsPrefix(pre_file_dst, pre_file_dst')]_vars

\* C12: prepare has run twice on a job whose tree holds two files side by
\* side, so that more than one listing order exists and the file list holds
\* duplicates
C12_Witness ==
    /\ last = "prepare"
    /\ result = "ok"
    /\ ~NoDup(pre_file_src)
    /\ \E k, l \in 1..Len(pre_file_src) :
          /\ pre_file_src[k] # pre_file_src[l]
          /\ Parent(pre_file_src[k]) = Parent(pre_file_src[l])
          /\ file_by[k] = file_by[l]

\* C13: a summary call on a plan whose Planned File sources all exist, so
\* that their metadata can be read, returns normally, whatever the plan holds
\* (no Planned File, no Planned File with an extension), and leaves the job
\* list and the plan as they were.
C13_SummaryOnlyFailsOnIO ==
    [][(last' = "summary" /\ \A k \in 1..Len(pre_file_src) : Exists(fs, pre_file_src[k])) =>
          /\ result' = "ok"
          /\ UNCHANGED <<jobvars, pre_directories, pre_file_src, pre_file_dst>>]_vars

\* the turn execute's loop is at fails: mkdir on Planned Directory idx in the
\* first loop, copy2 on Planned File idx in the second
TurnFails ==
    IF pc = "dirs"
    THEN idx <= Len(pre_directories) /\ MkdirFails(fs, pre_directories[idx])
    ELSE idx <= Len(pre_file_src) /\ CopyError(fs, pre_file_src[idx], pre_file_dst[idx]) # "none"

\* C14: a step of execute whose mkdir or copy fails ends execute with that
\* error and writes nothing: the directories before the failing one are
\* still directories, the files copied before the failing one are still
\* there (and all the directories, when a copy fails), and execute goes from
\* a failure in the directory pass straight to its end, never to the file
\* pass.  A step that does not fail writes the entry at idx only, and no
\* step of the directory pass creates a file.  After its end execute takes
\* no step.
C14_FailureStopsExecute ==
    [][/\ (pc \in {"dirs", "files"} /\ exts' = exts) =>
             /\ IF TurnFails
                THEN /\ pc' = "done"
                     /\ result' \notin {"ok", "running"}
                     /\ fs' = fs
                     /\ idx' = idx
                     /\ \A l \in 1..(idx - 1) :
                           IF pc = "dirs" THEN IsDir(fs', pre_directories[l])
                                          ELSE Exists(fs', pre_file_dst[l])
                     /\ pc = "files" => \A l \in 1..Len(pre_directories) : IsDir(fs', pre_directories[l])
                ELSE \/ /\ pc = "dirs" /\ idx <= Len(pre_directories)
                        /\ fs' = Mkdir(fs, pre_directories[idx]) /\ idx' = idx + 1 /\ pc' = pc
                     \/ /\ pc = "files" /\ idx <= Len(pre_file_src)
                        /\ fs' = Copy2(fs, pre_file_src[idx], pre_file_dst[idx])
                        /\ idx' = idx + 1 /\ pc' = pc
                     \/ fs' = fs /\ pc' # pc
             /\ pc = "dirs" => Files(fs') = Files(fs)
       /\ pc = "done" => UNCHANGED vars]_vars

\* C14: execute has ended on a mkdir that failed after it had created a
\* directory, on a plan that holds files
C14_Witness ==
    /\ pc = "done"
    /\ result = "FileExistsError"
    /\ idx > 1
    /\ IsDir(fs, pre_directories[1])
    /\ ~Exists(Tree0, pre_directories[1])
    /\ pre_file_src # <<>>

\* C15: add registers a job whose source is not absolute (when the source
\* exists and the destination does not), and a prepare call on jobs of which
\* one has a source that is not absolute returns normally, with every
\* Planned File source absolute and every Planned File destination the image
\* of its source under the job that planned it.
C15_RelativeSourcePlanned ==
    /\ (last = "add" /\ ~IsAbsolute(arg.src) /\ Exists(fs, arg.src) /\ ~Exists(fs, arg.dst)) =>
          result = "added"
    /\ (last = "prepare" /\ \E i \in 1..task_count : ~IsAbsolute(src_list[i])) =>
          /\ result = "ok"
          /\ \A k \in 1..Len(pre_file_src) :
                /\ IsAbsolute(pre_file_src[k])
                /\ pre_file_dst[k] = Image(file_by[k], pre_file_src[k].parts)

\* what was on the filesystem at the start is still there, as it was, and
\* every regular file holds the bytes of a file that was there at the start:
\* all that another process can have done is create directories
OnlyDirectoriesAdded(f) ==
    /\ \A q \in DOMAIN Tree0 : q \in DOMAIN f /\ f[q] = Tree0[q]
    /\ \A q \in Files(f) : \E r \in Files(Tree0) : f[q].data = Tree0[r].data

\* C16: a turn of execute's first loop on a Planned Directory that is
\* already a directory changes nothing and goes on to the next turn; and
\* when execute ends on jobs and a plan that validate accepted, beside
\* another process that has only created directories, it ends normally,
\* every Planned Directory is a directory and every Planned File has been
\* copied.
C16_ExistingDirectoryTolerated ==
    [][/\ (pc = "dirs" /\ exts' = exts /\ idx <= Len(pre_directories)
             /\ IsDir(fs, pre_directories[idx])) =>
             (fs' = fs /\ idx' = idx + 1 /\ pc' = pc /\ result' = result)
       /\ (pc # "done" /\ pc' = "done" /\ ValidateOutcome(Tree0) = "ok"
             /\ OnlyDirectoriesAdded(fs')) =>
             /\ result' = "ok"
             /\ \A k \in 1..Len(pre_directories) : IsDir(fs', pre_directories[k])
             /\ \A k \in 1..Len(pre_file_src) :
                   /\ IsFile(fs', pre_file_dst[k])
                   /\ fs'[pre_file_dst[k].parts].data = fs'[pre_file_src[k].parts].data]_vars

\* C16: execute has ended normally on a plan that holds files and a
\* directory that another process had created before execute came to it
C16_Witness ==
    /\ pc = "done"
    /\ result = "ok"
    /\ exts > 0
    /\ OnlyDirectoriesAdded(fs)
    /\ ValidateOutcome(Tree0) = "ok"
    /\ pre_file_src # <<>>
    /\ \E k \in 1..Len(pre_directories) : pre_directories[k] \in ExtDirs

\* C17: the two Planned File lists have the same length, the entries at the
\* same index belong together (the destination has the name of the source),
\* and the directory of every Planned File destination is in the Planned
\* Directory list.
C17_FileParentsPlanned ==
    /\ Len(pre_file_src) = Len(pre_file_dst)
    /\ \A k \in 1..Len(pre_file_dst) :
          /\ Parent(pre_file_dst[k]) \in Range(pre_directories)
          /\ Name(pre_file_dst[k]) = Name(pre_file_src[k])

\* C17: a job whose source root is a regular file has planned it, so that
\* the directory of its destination was recorded on the file's own turn, and
\* the plan holds the file of another job as well
C17_Witness ==
    /\ last = "prepare"
    /\ \E k, l \in 1..Len(pre_file_src) :
          /\ Absolute(src_list[file_by[k]]) = pre_file_src[k]
          /\ file_by[l] # file_by[k]

\* C18: once execute has been called on jobs and a plan that validate
\* accepts, everything that was on the filesystem when the run started is
\* still there with the content and the metadata it had: execute has written
\* only to paths that did not exist.
C18_ExistingEntriesUntouched ==
    (pc # "idle" /\ ValidateOutcome(Tree0) = "ok") =>
        \A q \in DOMAIN Tree0 : q \in DOMAIN fs /\ fs[q] = Tree0[q]

\* C18: execute has ended normally on a validated plan, and it has copied a
\* file of one job to a destination inside the source tree of another job
C18_Witness ==
    /\ pc = "done"
    /\ result = "ok"
    /\ ValidateOutcome(Tree0) = "ok"
    /\ \E i \in 1..task_count : \E k \in 1..Len(pre_file_dst) :
          /\ file_by[k] # i
          /\ IsPrefix(Root(i), pre_file_dst[k].parts)
          /\ IsFile(fs, pre_file_dst[k])

\* C19: whenever validate returns normally, no path is both a Planned
\* Directory and the destination of a Planned File.
C19_NoDirectoryFileClash ==
    (last = "validate" /\ result = "ok") =>
        Range(pre_directories) \cap Range(pre_file_dst) = {}

\* C20: a prepare call that has started returns or raises, with an empty
\* worklist; its for loop leaves a job only when the job's worklist is empty;
\* and no entry of a job's tree is taken from the worklist twice in one call.
C20_PrepareTerminates ==
    /\ (pc = "prepare") ~> (pc = "idle" /\ loop_queue = <<>>)
    /\ [][(pc = "prepare" /\ (loop_i' # loop_i \/ pc' = "idle")) =>
             (loop_queue = <<>> \/ result' = "ValueError")]_vars
    /\ [](~twice)

\* C20: a prepare call has returned after it had gone through the trees of
\* two jobs, one of them with its destination inside its own source tree
C20_Witness ==
    /\ pc = "idle"
    /\ last = "prepare"
    /\ result = "ok"
    /\ loop_i = 2
    /\ Cardinality(taken) >= 8
    /\ \E i \in 1..task_count : IsPrefix(Root(i), dst_list[i].parts)

====
